---- MODULE Spec2Model ----
(***************************************************************************)
(* The glados audit pipeline (glados-audit/src/lib.rs).                    *)
(*                                                                         *)
(* run_glados_audit creates a bounded mpsc channel and spawns two tasks:   *)
(* do_audit_orchestration (the Scheduler, producer) and                    *)
(* perform_content_audits (the Auditor, single consumer); it then waits    *)
(* for CTRL+C.  One action of the model is one resumption of a task at an  *)
(* await point (or at the blocking get_content call), together with the    *)
(* synchronous code that follows it up to the next such point.             *)
(*                                                                         *)
(* The Content Catalog (table contentkey) is written by an ingestion       *)
(* process outside the audit crate: Ingest and Prune are its steps.        *)
(***************************************************************************)
EXTENDS Integers, Sequences, FiniteSets, TLC

VARIABLES
    catalog,        \* rows of table contentkey, in order of created_at (oldest first)
    nextId,         \* next primary key of table contentkey
    pruned,         \* number of rows deleted from the catalog so far
    now,            \* wall clock, seconds since run_glados_audit started
    interval,       \* deadline of the next tick of the Scheduler's interval timer
    ticks,          \* number of completed interval.tick().await calls
    schedPc,        \* Scheduler: "tick" | "send" | "panicked"
    content_key_db_entries,  \* Scheduler: the batch of the current loop iteration
    idx,            \* Scheduler: number of batch entries taken by the for loop
    pending,        \* Scheduler: the key given to the tx.send that is awaited
    queue,          \* buffer of the mpsc channel
    audPc,          \* Auditor: "init" | "recv" | "lookup" | "resolve" | "create" | "failed" | "done"
    content_key,    \* Auditor: the key returned by rx.recv()
    raw_data,       \* Auditor: content.raw, the payload returned by get_content
    content_key_id, \* Auditor: the row returned by contentkey::get
    records,        \* rows of table contentaudit, in order of insertion
    supPc,          \* Supervisor: "waiting" | "ended"
    pushed,         \* history: every key a tx.send has put into the channel, in order
    lastTick,       \* history: the latest completed tick of the Scheduler
    prevTick,       \* history: the tick before lastTick
    dequeued,       \* history: every key rx.recv() has returned, in order
    audit,          \* history: the steps taken for the latest key of dequeued
    recorded        \* history: the key in hand at every insertion into records, in order

vars == <<catalog, nextId, pruned, now, interval, ticks, schedPc,
          content_key_db_entries, idx, pending, queue, audPc, content_key,
          raw_data, content_key_id, records, supPc, pushed, lastTick,
          prevTick, dequeued, audit, recorded>>

catalogVars == <<catalog, nextId, pruned>>
schedVars   == <<interval, ticks, schedPc, content_key_db_entries, idx, pending,
                 pushed, lastTick, prevTick>>
audVars     == <<audPc, content_key, raw_data, content_key_id, records, dequeued,
                 audit, recorded>>

-----------------------------------------------------------------------------
(* Program constants *)

AUDIT_PERIOD_SECONDS == 120
ChannelCapacity == 100
BatchLimit == 10
HashLen == 32
PassThreshold == 2

(* Bounds of the model *)

MaxTicks == 2        \* ticks of the interval timer per run
MaxAudits == 2       \* keys received by the Auditor per run
MaxId == 2           \* largest primary key the ingestion process assigns
MaxPrune == 1        \* rows deleted from the catalog per run
MaxPayloadLen == 3   \* longest payload get_content returns

NoKey == [variant |-> "none", block_hash |-> <<>>]
NoRow == [id |-> 0, content_key |-> <<>>]

-----------------------------------------------------------------------------
(* Values *)

\* a 32-byte hash all of whose bytes are b
HashOf(b) == [i \in 1..HashLen |-> b]

\* raw content keys the ingestion process may store: a block header key, a
\* block body key of the same block, a header key of another block with a
\* trailing byte, and a key that is shorter than 33 bytes
RawKeys ==
    { <<0>> \o HashOf(1),
      <<1>> \o HashOf(1),
      <<0>> \o HashOf(2) \o <<9>>,
      <<0, 1, 1>> }

\* block header keys of three blocks
HeaderKeys == { <<0>> \o HashOf(b) : b \in 1..3 }

\* payloads of every length 0..MaxPayloadLen
Payloads == { [i \in 1..n |-> 0] : n \in 0..MaxPayloadLen }

\* the slice content_key[1..33] panics when the raw key has fewer than 33 bytes
CanDerive(raw) == Len(raw) >= HashLen + 1

\* the slice taken one byte too early: [0..32]
DeriveKeepsSelectorByte(raw) ==
    [variant |-> "BlockHeader", block_hash |-> SubSeq(raw, 1, HashLen)]

\* the hash taken from the last 32 bytes of the raw key
DeriveKeyFromEnd(raw) ==
    [variant |-> "BlockHeader",
     block_hash |-> SubSeq(raw, Len(raw) - HashLen + 1, Len(raw))]


\* H256::from_slice(&content_key[1..33]) wrapped in HistoryContentKey::BlockHeader
DeriveKey(raw) ==
    [variant |-> "BlockHeader", block_hash |-> SubSeq(raw, 2, HashLen + 1)]

\* Vec<u8>::from(HistoryContentKey): selector byte 0x00 of a block header key,
\* followed by the block hash
EncodeKey(key) == <<0>> \o key.block_hash

\* the comparison written as >= 2
PassedAtLeastThreshold(data) == Len(data) >= PassThreshold

\* raw_data.len() > 2
Passed(data) == Len(data) > PassThreshold

RECURSIVE Reverse(_)
Reverse(s) == IF s = <<>> THEN <<>> ELSE Append(Reverse(Tail(s)), Head(s))

\* the query without its limit: every row, most recent first
RecentBatchUnlimited(cat) == Reverse(cat)


\* find().order_by_desc(CreatedAt).limit(10).all(): the 10 most recently
\* created rows, most recent first
RecentBatch(cat) ==
    Reverse(IF Len(cat) <= BatchLimit THEN cat
            ELSE SubSeq(cat, Len(cat) - BatchLimit + 1, Len(cat)))

\* contentkey::get(&content_key, &conn): the rows whose stored key equals the
\* encoded lookup key
Matching(cat, key) ==
    { cat[i] : i \in { j \in 1..Len(cat) : cat[j].content_key = EncodeKey(key) } }

\* contentaudit::create(id, passed, &conn): a new row is inserted
InsertAudit(rows, id, passed) ==
    Append(rows, [content_key_entry_id |-> id, passed |-> passed])

\* the tasks go on after the signal for as long as the channel holds keys
AliveWhileDraining == supPc = "waiting" \/ queue # <<>>


Alive == supPc = "waiting"
\* the Receiver is dropped when perform_content_audits returns
RxClosed == audPc \in {"failed", "done"}
\* the Sender is dropped when do_audit_orchestration unwinds
TxClosed == schedPc = "panicked"

NoTick == [at |-> -1, ok |-> FALSE, k |-> 0, first |-> 0]

\* the steps of one audit: the outcome of get_content ("pending" | "ok" |
\* "err"), of contentkey::get ("pending" | "some" | "none" | "err") and the
\* id it returned, the number of calls of contentaudit::create, the outcome
\* of the latest ("none" | "ok" | "err") and the row it inserted
NewAudit ==
    [lookup |-> "pending", resolved |-> "pending", entry |-> 0, creates |-> 0,
     create |-> "none", record |-> 0]

\* audit with some fields replaced
Logged(changes) ==
    [f \in DOMAIN audit |-> IF f \in DOMAIN changes THEN changes[f] ELSE audit[f]]

-----------------------------------------------------------------------------
(* Initial state: run_glados_audit has created the channel and spawned both *)
(* tasks.  InitWith(cat) starts from the catalog cat.                       *)

InitWith(cat) ==
    /\ catalog = cat
    /\ nextId = Len(cat) + 1
    /\ pruned = 0
    /\ now = 0
    /\ interval = 0
    /\ ticks = 0
    /\ schedPc = "tick"
    /\ content_key_db_entries = <<>>
    /\ idx = 0
    /\ pending = NoKey
    /\ queue = <<>>
    /\ audPc = "init"
    /\ content_key = NoKey
    /\ raw_data = <<>>
    /\ content_key_id = NoRow
    /\ records = <<>>
    /\ supPc = "waiting"
    /\ pushed = <<>>
    /\ lastTick = NoTick
    /\ prevTick = NoTick
    /\ dequeued = <<>>
    /\ audit = NewAudit
    /\ recorded = <<>>

Init == InitWith(<<>>)

-----------------------------------------------------------------------------
(* The environment: the clock and the ingestion process *)

\* time passes, one audit period at a time
Advance(maxTicks) ==
    /\ Alive
    /\ now < maxTicks * AUDIT_PERIOD_SECONDS
    /\ now' = now + AUDIT_PERIOD_SECONDS
    /\ UNCHANGED <<catalogVars, schedVars, queue, audVars, supPc>>

\* the ingestion process stores a new content key
Ingest(maxId) ==
    /\ Alive
    /\ nextId <= maxId
    /\ \E raw \in RawKeys :
          /\ \A i \in 1..Len(catalog) : catalog[i].content_key # raw
          /\ catalog' = Append(catalog, [id |-> nextId, content_key |-> raw])
    /\ nextId' = nextId + 1
    /\ UNCHANGED <<pruned, now, schedVars, queue, audVars, supPc>>

\* the ingestion process stores a new block header key
IngestHeader(maxId) ==
    /\ Alive
    /\ nextId <= maxId
    /\ \E raw \in HeaderKeys :
          /\ \A i \in 1..Len(catalog) : catalog[i].content_key # raw
          /\ catalog' = Append(catalog, [id |-> nextId, content_key |-> raw])
    /\ nextId' = nextId + 1
    /\ UNCHANGED <<pruned, now, schedVars, queue, audVars, supPc>>

\* the oldest row of the catalog is deleted
Prune(maxPrune) ==
    /\ Alive
    /\ pruned < maxPrune
    /\ catalog # <<>>
    /\ catalog' = Tail(catalog)
    /\ pruned' = pruned + 1
    /\ UNCHANGED <<nextId, now, schedVars, queue, audVars, supPc>>

-----------------------------------------------------------------------------
(* The Scheduler: do_audit_orchestration *)

\* a raw key that is too short is passed over: the for loop goes on with the
\* next entry
ForLoopSkipsShort(batch, i) ==
    LET rest == { j \in (i + 1)..Len(batch) : CanDerive(batch[j].content_key) }
    IN  IF rest = {}
        THEN schedPc' = "tick" /\ idx' = Len(batch) /\ pending' = NoKey
        ELSE LET j == CHOOSE j \in rest : \A k \in rest : j <= k
             IN  /\ schedPc' = "send"
                 /\ idx' = j
                 /\ pending' = DeriveKey(batch[j].content_key)


\* the for loop after i entries of batch: the loop ends and the task awaits
\* the next tick, or the slice of entry i+1 panics, or its key is derived and
\* tx.send is awaited
ForLoop(batch, i) ==
    IF i = Len(batch)
    THEN schedPc' = "tick" /\ idx' = i /\ pending' = NoKey
    ELSE IF ~CanDerive(batch[i + 1].content_key)
         THEN schedPc' = "panicked" /\ idx' = i /\ pending' = NoKey
         ELSE /\ schedPc' = "send"
              /\ idx' = i + 1
              /\ pending' = DeriveKey(batch[i + 1].content_key)

\* the query leaves out the rows of the batch before: a key is pushed once
TickOkSkipsSeen(maxTicks) ==
    /\ Alive
    /\ schedPc = "tick"
    /\ now >= interval
    /\ ticks < maxTicks
    /\ ticks' = ticks + 1
    /\ interval' = interval + AUDIT_PERIOD_SECONDS
    /\ LET seen == { content_key_db_entries[i] : i \in 1..Len(content_key_db_entries) }
           batch == SelectSeq(RecentBatch(catalog), LAMBDA e : e \notin seen)
       IN  /\ content_key_db_entries' = batch
           /\ ForLoop(batch, 0)
           /\ lastTick' = [at |-> interval, ok |-> TRUE, k |-> Len(batch),
                           first |-> Len(pushed)]
    /\ prevTick' = lastTick
    /\ UNCHANGED <<catalogVars, now, queue, audVars, supPc, pushed>>


\* the Scheduler looks at the channel before it queries: tx.is_closed() at
\* the tick ends the task
TickOkChecksClosed(maxTicks) ==
    /\ Alive
    /\ schedPc = "tick"
    /\ now >= interval
    /\ ticks < maxTicks
    /\ ticks' = ticks + 1
    /\ interval' = interval + AUDIT_PERIOD_SECONDS
    /\ content_key_db_entries' = RecentBatch(catalog)
    /\ IF RxClosed
       THEN schedPc' = "panicked" /\ idx' = 0 /\ pending' = NoKey
       ELSE ForLoop(RecentBatch(catalog), 0)
    /\ prevTick' = lastTick
    /\ lastTick' = [at |-> interval, ok |-> TRUE,
                    k |-> Len(RecentBatch(catalog)), first |-> Len(pushed)]
    /\ UNCHANGED <<catalogVars, now, queue, audVars, supPc, pushed>>


\* interval.tick() completes and the catalog query succeeds
TickOk(maxTicks) ==
    /\ Alive
    /\ schedPc = "tick"
    /\ now >= interval
    /\ ticks < maxTicks
    /\ ticks' = ticks + 1
    /\ interval' = interval + AUDIT_PERIOD_SECONDS
    /\ content_key_db_entries' = RecentBatch(catalog)
    /\ ForLoop(RecentBatch(catalog), 0)
    /\ prevTick' = lastTick
    /\ lastTick' = [at |-> interval, ok |-> TRUE,
                    k |-> Len(RecentBatch(catalog)), first |-> Len(pushed)]
    /\ UNCHANGED <<catalogVars, now, queue, audVars, supPc, pushed>>

\* the catalog query fails and is tried again at once: the timer is reset so
\* that its next tick is due immediately
TickErrRetriesAtOnce(maxTicks) ==
    /\ Alive
    /\ schedPc = "tick"
    /\ now >= interval
    /\ ticks < maxTicks
    /\ ticks' = ticks + 1
    /\ interval' = interval
    /\ content_key_db_entries' = <<>>
    /\ idx' = 0
    /\ prevTick' = lastTick
    /\ lastTick' = [at |-> interval, ok |-> FALSE, k |-> 0, first |-> Len(pushed)]
    /\ UNCHANGED <<catalogVars, now, schedPc, pending, queue, audVars, supPc, pushed>>

\* interval.tick() completes and the catalog query fails: continue
TickErr(maxTicks) ==
    /\ Alive
    /\ schedPc = "tick"
    /\ now >= interval
    /\ ticks < maxTicks
    /\ ticks' = ticks + 1
    /\ interval' = interval + AUDIT_PERIOD_SECONDS
    /\ content_key_db_entries' = <<>>
    /\ idx' = 0
    /\ prevTick' = lastTick
    /\ lastTick' = [at |-> interval, ok |-> FALSE, k |-> 0,
                    first |-> Len(pushed)]
    /\ UNCHANGED <<catalogVars, now, schedPc, pending, queue, audVars, supPc, pushed>>

\* tx.send replaced by a send that gives up when the channel is full: the key
\* is dropped and the for loop goes on
SendOkDropsWhenFull ==
    /\ Alive
    /\ schedPc = "send"
    /\ ~RxClosed
    /\ IF Len(queue) < ChannelCapacity
       THEN queue' = Append(queue, pending) /\ pushed' = Append(pushed, pending)
       ELSE queue' = queue /\ pushed' = pushed
    /\ ForLoop(content_key_db_entries, idx)
    /\ UNCHANGED <<catalogVars, now, interval, ticks, content_key_db_entries,
                   audVars, supPc, lastTick, prevTick>>

\* tx.send completes: the channel has room and the Receiver is alive
SendOk ==
    /\ Alive
    /\ schedPc = "send"
    /\ ~RxClosed
    /\ Len(queue) < ChannelCapacity
    /\ queue' = Append(queue, pending)
    /\ pushed' = Append(pushed, pending)
    /\ ForLoop(content_key_db_entries, idx)
    /\ UNCHANGED <<catalogVars, now, interval, ticks, content_key_db_entries,
                   audVars, supPc, lastTick, prevTick>>

\* tx.send fails because the Receiver was dropped: expect panics
SendClosed ==
    /\ Alive
    /\ schedPc = "send"
    /\ RxClosed
    /\ schedPc' = "panicked"
    /\ UNCHANGED <<catalogVars, now, interval, ticks, content_key_db_entries, idx,
                   pending, queue, audVars, supPc, pushed, lastTick, prevTick>>

-----------------------------------------------------------------------------
(* The Auditor: perform_content_audits *)

\* PortalClient::from_ipc succeeds
ConnectOk ==
    /\ Alive
    /\ audPc = "init"
    /\ audPc' = "recv"
    /\ UNCHANGED <<catalogVars, now, schedVars, queue, content_key, raw_data,
                   content_key_id, records, recorded, supPc, dequeued, audit>>

\* PortalClient::from_ipc fails: the error is returned by `?`
ConnectErr ==
    /\ Alive
    /\ audPc = "init"
    /\ audPc' = "failed"
    /\ queue' = <<>>
    /\ UNCHANGED <<catalogVars, now, schedVars, content_key, raw_data,
                   content_key_id, records, recorded, supPc, dequeued, audit>>

\* rx.recv() returns the newest message instead of the oldest
RecvNewest(maxAudits) ==
    /\ Alive
    /\ audPc = "recv"
    /\ queue # <<>>
    /\ Len(dequeued) < maxAudits
    /\ content_key' = queue[Len(queue)]
    /\ queue' = SubSeq(queue, 1, Len(queue) - 1)
    /\ audPc' = "lookup"
    /\ dequeued' = Append(dequeued, queue[Len(queue)])
    /\ audit' = NewAudit
    /\ UNCHANGED <<catalogVars, now, schedVars, raw_data, content_key_id,
                   records, recorded, supPc>>

\* the lookup runs in a task of its own: rx.recv() is awaited again while a
\* lookup is in flight
RecvWhileLookup(maxAudits) ==
    /\ Alive
    /\ audPc \in {"recv", "lookup"}
    /\ queue # <<>>
    /\ Len(dequeued) < maxAudits
    /\ content_key' = Head(queue)
    /\ queue' = Tail(queue)
    /\ audPc' = "lookup"
    /\ dequeued' = Append(dequeued, Head(queue))
    /\ audit' = NewAudit
    /\ UNCHANGED <<catalogVars, now, schedVars, raw_data, content_key_id,
                   records, recorded, supPc>>


\* rx.recv() returns the oldest message of the channel; get_content is called
Recv(maxAudits) ==
    /\ Alive
    /\ audPc = "recv"
    /\ queue # <<>>
    /\ Len(dequeued) < maxAudits
    /\ content_key' = Head(queue)
    /\ queue' = Tail(queue)
    /\ audPc' = "lookup"
    /\ dequeued' = Append(dequeued, Head(queue))
    /\ audit' = NewAudit
    /\ UNCHANGED <<catalogVars, now, schedVars, raw_data, content_key_id,
                   records, recorded, supPc>>

\* rx.recv() returns None: the channel is empty and the Sender was dropped
RecvNone ==
    /\ Alive
    /\ audPc = "recv"
    /\ queue = <<>>
    /\ TxClosed
    /\ audPc' = "done"
    /\ UNCHANGED <<catalogVars, now, schedVars, queue, content_key, raw_data,
                   content_key_id, records, recorded, supPc, dequeued, audit>>

\* client.get_content returns a payload; contentkey::get is awaited
LookupOk ==
    /\ Alive
    /\ audPc = "lookup"
    /\ \E data \in Payloads :
          /\ raw_data' = data
          /\ audit' = Logged([lookup |-> "ok"])
    /\ audPc' = "resolve"
    /\ UNCHANGED <<catalogVars, now, schedVars, queue, content_key,
                   content_key_id, records, recorded, supPc, dequeued>>

\* client.get_content fails and the error is swallowed: next message
LookupErrContinues ==
    /\ Alive
    /\ audPc = "lookup"
    /\ audPc' = "recv"
    /\ audit' = Logged([lookup |-> "err"])
    /\ UNCHANGED <<catalogVars, now, schedVars, queue, content_key, raw_data,
                   content_key_id, records, recorded, supPc, dequeued>>

\* client.get_content fails: the error is returned by `?`, the Receiver is
\* dropped and with it the messages still in the channel
LookupErr ==
    /\ Alive
    /\ audPc = "lookup"
    /\ audPc' = "failed"
    /\ queue' = <<>>
    /\ audit' = Logged([lookup |-> "err"])
    /\ UNCHANGED <<catalogVars, now, schedVars, content_key, raw_data,
                   content_key_id, records, recorded, supPc, dequeued>>

\* contentkey::get returns Ok(Some(row)); contentaudit::create is awaited
ResolveSome ==
    /\ Alive
    /\ audPc = "resolve"
    /\ \E row \in Matching(catalog, content_key) :
          /\ content_key_id' = row
          /\ audit' = Logged([resolved |-> "some", entry |-> row.id])
    /\ audPc' = "create"
    /\ UNCHANGED <<catalogVars, now, schedVars, queue, content_key, raw_data,
                   records, recorded, supPc, dequeued>>

\* contentkey::get returns Ok(None) and a row for entry id 0 is written all
\* the same
ResolveNoneCreates ==
    /\ Alive
    /\ audPc = "resolve"
    /\ Matching(catalog, content_key) = {}
    /\ audPc' = "recv"
    /\ audit' = Logged([resolved |-> "none"])
    /\ records' = InsertAudit(records, 0, Passed(raw_data))
    /\ recorded' = Append(recorded, content_key)
    /\ content_key' = NoKey
    /\ raw_data' = <<>>
    /\ UNCHANGED <<catalogVars, now, schedVars, queue, content_key_id, supPc,
                   dequeued>>

\* contentkey::get returns Ok(None): continue
ResolveNone ==
    /\ Alive
    /\ audPc = "resolve"
    /\ Matching(catalog, content_key) = {}
    /\ audPc' = "recv"
    /\ audit' = Logged([resolved |-> "none"])
    /\ content_key' = NoKey
    /\ raw_data' = <<>>
    /\ UNCHANGED <<catalogVars, now, schedVars, queue, content_key_id, records, recorded,
                   supPc, dequeued>>

\* the error of contentkey::get is returned with `?`: the Auditor terminates
ResolveErrFails ==
    /\ Alive
    /\ audPc = "resolve"
    /\ audPc' = "failed"
    /\ queue' = <<>>
    /\ audit' = Logged([resolved |-> "err"])
    /\ UNCHANGED <<catalogVars, now, schedVars, content_key, raw_data,
                   content_key_id, records, recorded, supPc, dequeued>>


\* contentkey::get returns Err: the let-else takes the same branch, continue
ResolveErr ==
    /\ Alive
    /\ audPc = "resolve"
    /\ audPc' = "recv"
    /\ audit' = Logged([resolved |-> "err"])
    /\ content_key' = NoKey
    /\ raw_data' = <<>>
    /\ UNCHANGED <<catalogVars, now, schedVars, queue, content_key_id, records, recorded,
                   supPc, dequeued>>

\* contentaudit::create is called twice for the key in hand
CreateOkTwice ==
    /\ Alive
    /\ audPc = "create"
    /\ records' = InsertAudit(InsertAudit(records, content_key_id.id, Passed(raw_data)),
                              content_key_id.id, Passed(raw_data))
    /\ recorded' = Append(Append(recorded, content_key), content_key)
    /\ audit' = Logged([creates |-> audit.creates + 2, create |-> "ok",
                        record |-> Len(records) + 2])
    /\ audPc' = "recv"
    /\ content_key' = NoKey
    /\ raw_data' = <<>>
    /\ content_key_id' = NoRow
    /\ UNCHANGED <<catalogVars, now, schedVars, queue, supPc, dequeued>>

\* the loop is left after the first row written
CreateOkReturns ==
    /\ Alive
    /\ audPc = "create"
    /\ records' = InsertAudit(records, content_key_id.id, Passed(raw_data))
    /\ recorded' = Append(recorded, content_key)
    /\ audit' = Logged([creates |-> audit.creates + 1, create |-> "ok",
                        record |-> Len(records) + 1])
    /\ audPc' = "done"
    /\ content_key' = NoKey
    /\ raw_data' = <<>>
    /\ content_key_id' = NoRow
    /\ UNCHANGED <<catalogVars, now, schedVars, queue, supPc, dequeued>>


\* contentaudit::create(content_key_id.id, raw_data.len() > 2, &conn) inserts
\* the row
CreateOk ==
    /\ Alive
    /\ audPc = "create"
    /\ records' = InsertAudit(records, content_key_id.id, Passed(raw_data))
    /\ recorded' = Append(recorded, content_key)
    /\ audit' = Logged([creates |-> audit.creates + 1, create |-> "ok",
                        record |-> Len(records) + 1])
    /\ audPc' = "recv"
    /\ content_key' = NoKey
    /\ raw_data' = <<>>
    /\ content_key_id' = NoRow
    /\ UNCHANGED <<catalogVars, now, schedVars, queue, supPc, dequeued>>

\* contentaudit::create fails with a StoreError; its result is not used
CreateErr ==
    /\ Alive
    /\ audPc = "create"
    /\ audit' = Logged([creates |-> audit.creates + 1, create |-> "err"])
    /\ audPc' = "recv"
    /\ content_key' = NoKey
    /\ raw_data' = <<>>
    /\ content_key_id' = NoRow
    /\ UNCHANGED <<catalogVars, now, schedVars, queue, records, recorded, supPc, dequeued>>

-----------------------------------------------------------------------------
(* The Supervisor: run_glados_audit *)

\* ctrl_c() completes: run_glados_audit returns (or its expect panics) and
\* the process ends, and with it both tasks
CtrlC ==
    /\ Alive
    /\ supPc' = "ended"
    /\ UNCHANGED <<catalogVars, now, schedVars, queue, audVars>>

-----------------------------------------------------------------------------
(* Specifications *)

Next ==
    \/ Advance(MaxTicks)
    \/ Ingest(MaxId)
    \/ Prune(MaxPrune)
    \/ TickOk(MaxTicks)
    \/ TickErr(MaxTicks)
    \/ SendOk
    \/ SendClosed
    \/ ConnectOk
    \/ ConnectErr
    \/ Recv(MaxAudits)
    \/ RecvNone
    \/ LookupOk
    \/ LookupErr
    \/ ResolveSome
    \/ ResolveNone
    \/ ResolveErr
    \/ CreateOk
    \/ CreateErr
    \/ CtrlC

Spec == Init /\ [][Next]_vars

(* The same program started on a catalog that holds more rows than a batch, *)
(* which the ingestion process leaves alone and whose queries all succeed,  *)
(* and run for enough ticks to fill the channel.                            *)

\* BatchLimit + 2 rows with pairwise different hashes; the rows with an even
\* id are block header keys
FullCatalog ==
    [i \in 1..(BatchLimit + 2) |-> [id |-> i, content_key |-> <<i % 2>> \o HashOf(i)]]

\* ticks needed to fill the channel and to block the next send
FullTicks == (ChannelCapacity \div BatchLimit) + 1

InitFull == InitWith(FullCatalog)

NextFull ==
    \/ Advance(FullTicks)
    \/ TickOk(FullTicks)
    \/ SendOk
    \/ SendClosed
    \/ ConnectOk
    \/ ConnectErr
    \/ Recv(MaxAudits)
    \/ LookupOk
    \/ LookupErr
    \/ ResolveSome
    \/ ResolveNone
    \/ ResolveErr
    \/ CreateOk
    \/ CreateErr
    \/ CtrlC

SpecFull == InitFull /\ [][NextFull]_vars

-----------------------------------------------------------------------------
(* The run of Spec over a catalog of block header keys, every one of which  *)
(* resolves to its own row: rows are stored and never deleted.              *)

NextHeaders ==
    \/ Advance(MaxTicks)
    \/ IngestHeader(MaxId)
    \/ TickOk(MaxTicks)
    \/ TickErr(MaxTicks)
    \/ SendOk
    \/ SendClosed
    \/ ConnectOk
    \/ ConnectErr
    \/ Recv(MaxAudits)
    \/ LookupOk
    \/ LookupErr
    \/ ResolveSome
    \/ ResolveErr
    \/ CreateOk
    \/ CreateErr
    \/ CtrlC

SpecHeaders == Init /\ [][NextHeaders]_vars

-----------------------------------------------------------------------------
(* The run of SpecFull without the signal and without a failing lookup,     *)
(* with both tasks polled whenever they can make a step: the runtime polls  *)
(* a spawned task that is ready, the blocking get_content returns, and a    *)
(* send waiting for room is woken when the Receiver takes a message.        *)

\* a step of perform_content_audits other than a failing lookup
AuditorStep ==
    \/ ConnectOk
    \/ ConnectErr
    \/ Recv(MaxAudits)
    \/ LookupOk
    \/ ResolveSome
    \/ ResolveNone
    \/ ResolveErr
    \/ CreateOk
    \/ CreateErr

\* the awaited tx.send of do_audit_orchestration is resumed
SendStep ==
    \/ SendOk
    \/ SendClosed

NextLive ==
    \/ Advance(FullTicks)
    \/ TickOk(FullTicks)
    \/ SendStep
    \/ AuditorStep

SpecLive ==
    /\ InitFull
    /\ [][NextLive]_vars
    /\ WF_vars(AuditorStep)
    /\ WF_vars(SendStep)


-----------------------------------------------------------------------------
(* Properties *)

\* s is an initial segment of t
IsPrefix(s, t) == Len(s) <= Len(t) /\ s = SubSeq(t, 1, Len(s))

\* the keys pushed since the latest tick fired
TickPushed == SubSeq(pushed, lastTick.first + 1, Len(pushed))

\* the hash component of key is bytes 1..33 of the raw key
CarriesHashOf(key, raw) ==
    /\ key.variant = "BlockHeader"
    /\ Len(key.block_hash) = HashLen
    /\ \A j \in 1..HashLen : key.block_hash[j] = raw[j + 1]

\* the Scheduler panicked in the expect of tx.send
ChannelClosedPanic == schedPc = "panicked" /\ pending # NoKey

\* the Auditor has a key in hand
InFlight == audPc \in {"lookup", "resolve", "create"}

\* parts of C1_Backpressure
C1_BlockedSendWaits ==
    (schedPc = "send" /\ Len(queue) = ChannelCapacity /\ ~RxClosed)
        => /\ schedPc' = "send"
           /\ pending' = pending
           /\ pushed' = pushed
           /\ \/ queue' = queue
              \/ queue' = Tail(queue) /\ dequeued' = Append(dequeued, Head(queue))
              \/ RxClosed'

C1_SendEnqueues ==
    (schedPc = "send" /\ (schedPc' # "send" \/ idx' # idx \/ pushed' # pushed))
        => \/ /\ Len(queue) < ChannelCapacity
              /\ queue' = Append(queue, pending)
              /\ pushed' = Append(pushed, pending)
           \/ /\ RxClosed
              /\ schedPc' = "panicked"
              /\ pushed' = pushed

(* C1: the channel never holds more than ChannelCapacity keys; a send that  *)
(* finds the channel full does not complete and loses nothing: the          *)
(* Scheduler stays in the send with the same key until the Auditor has      *)
(* received a key, and a send that completes has put its key at the tail    *)
(* of the channel.                                                          *)
C1_Backpressure ==
    /\ [](Len(queue) <= ChannelCapacity)
    /\ [](~RxClosed => Len(pushed) = Len(dequeued) + Len(queue))
    /\ [][C1_BlockedSendWaits]_vars
    /\ [][C1_SendEnqueues]_vars

\* the channel is full and the Scheduler is blocked in a send after the
\* Auditor has already taken a key
C1_Witness ==
    /\ schedPc = "send"
    /\ Len(queue) = ChannelCapacity
    /\ ~RxClosed
    /\ Len(dequeued) > 0

(* C2 as stated: after a tick whose query succeeded with k entries, the k   *)
(* keys pushed are pairwise different whenever the entries are different    *)
(* rows of the catalog.                                                     *)
C2_InjectiveOnEntries ==
    (lastTick.ok /\ schedPc = "tick")
        => /\ Len(TickPushed) = lastTick.k
           /\ \A i, j \in 1..Len(TickPushed) :
                 content_key_db_entries[i] # content_key_db_entries[j]
                     => TickPushed[i] # TickPushed[j]

(* C2 as amended: the batch of a successful query has at most BatchLimit    *)
(* entries, most recent first; the keys pushed since the tick are, in batch *)
(* order, the keys of the first entries of the batch, each carrying bytes   *)
(* 1..33 of its entry's raw key, so that entries with different hashes give *)
(* different keys; a tick that has run to completion has pushed exactly k.  *)
C2_PushesBatchInOrder ==
    lastTick.ok
        => /\ lastTick.k = Len(content_key_db_entries)
           /\ lastTick.k <= BatchLimit
           /\ \A i, j \in 1..lastTick.k :
                 i < j => content_key_db_entries[i].id > content_key_db_entries[j].id
           /\ Len(TickPushed) = (IF pending # NoKey THEN idx - 1 ELSE idx)
           /\ \A i \in 1..Len(TickPushed) :
                 CarriesHashOf(TickPushed[i], content_key_db_entries[i].content_key)
           /\ \A i, j \in 1..Len(TickPushed) :
                 SubSeq(content_key_db_entries[i].content_key, 2, HashLen + 1)
                     # SubSeq(content_key_db_entries[j].content_key, 2, HashLen + 1)
                   => TickPushed[i] # TickPushed[j]
           /\ (schedPc = "tick" => Len(TickPushed) = lastTick.k)

\* a tick has pushed a whole batch of two entries with different hashes
C2_Witness ==
    /\ lastTick.ok
    /\ schedPc = "tick"
    /\ lastTick.k >= 2
    /\ Len(TickPushed) = lastTick.k
    /\ TickPushed[1] # TickPushed[2]

\* parts of C3_FailedTickIsSkipped
C3_AfterFailedQuery ==
    (lastTick # NoTick /\ ~lastTick.ok)
        => /\ schedPc = "tick"
           /\ Len(pushed) = lastTick.first
           /\ content_key_db_entries = <<>>
           /\ interval = lastTick.at + AUDIT_PERIOD_SECONDS

C3_NextTickOnSchedule ==
    (lastTick # NoTick /\ ~lastTick.ok /\ ticks' # ticks)
        => /\ now >= lastTick.at + AUDIT_PERIOD_SECONDS
           /\ lastTick'.at = lastTick.at + AUDIT_PERIOD_SECONDS
           /\ prevTick' = lastTick
           /\ (lastTick'.ok => /\ content_key_db_entries' = RecentBatch(catalog)
                               /\ lastTick'.k = Len(RecentBatch(catalog)))

(* C3: after a tick whose catalog query failed the Scheduler has pushed     *)
(* nothing, is alive and waits for the timer, whose next deadline is one    *)
(* full period after the deadline of the failed tick; the next tick does    *)
(* not fire before that deadline, and it queries the catalog again.         *)
C3_FailedTickIsSkipped ==
    /\ [](C3_AfterFailedQuery)
    /\ [][C3_NextTickOnSchedule]_vars

\* the tick after a failed one has queried the catalog and pushed its batch
C3_Witness ==
    /\ prevTick # NoTick
    /\ ~prevTick.ok
    /\ lastTick.ok
    /\ lastTick.at = prevTick.at + AUDIT_PERIOD_SECONDS
    /\ lastTick.k > 0
    /\ schedPc = "tick"
    /\ Len(TickPushed) = lastTick.k

\* parts of C4_UnresolvedKeyIsSkipped
C4_NoneIsSkipped ==
    audit.resolved = "none"
        => /\ audit.creates = 0
           /\ audit.record = 0
           /\ audPc \in {"recv", "done"}

C4_NoneStep ==
    (audit.resolved = "pending" /\ audit'.resolved = "none")
        => /\ records' = records
           /\ queue' = queue
           /\ audPc' = "recv"

C4_ResolvedFromCatalog ==
    (audit.resolved = "pending" /\ audit'.resolved = "some")
        => \E i \in 1..Len(catalog) :
              /\ catalog[i].id = audit'.entry
              /\ catalog[i].content_key = <<0>> \o content_key.block_hash

C4_RecordHasResolvedId ==
    Len(records') > Len(records)
        => /\ audit.resolved = "some"
           /\ audit.entry > 0
           /\ records'[Len(records')].content_key_entry_id = audit.entry

(* C4: when contentkey::get returns none for the received key,              *)
(* contentaudit::create is not called for it, no row is written, and the    *)
(* Auditor is alive and back at rx.recv() with the channel untouched; every *)
(* row written carries the id that contentkey::get returned for the key in  *)
(* hand, which is the id of a row the catalog held at that moment under     *)
(* the encoded key.                                                         *)
C4_UnresolvedKeyIsSkipped ==
    /\ [](C4_NoneIsSkipped)
    /\ [][C4_NoneStep]_vars
    /\ [][C4_ResolvedFromCatalog]_vars
    /\ [][C4_RecordHasResolvedId]_vars

\* a key was skipped because it did not resolve, and the Auditor has gone on
\* to the next key of the channel
C4_Witness ==
    /\ Len(dequeued) >= 2
    /\ Len(records) = 0
    /\ audit.lookup = "ok"
    /\ audit.resolved = "none"
    /\ audPc = "recv"

\* parts of C5_Classification
C5_RecordStep ==
    Len(records') > Len(records)
        => /\ audit.lookup = "ok"
           /\ audit.resolved = "some"
           /\ records' = Append(records,
                            [content_key_entry_id |-> audit.entry,
                             passed |-> (Len(raw_data) \notin {0, 1, 2})])

(* C5: the row written for a key whose lookup succeeded and whose entry     *)
(* resolved references the resolved entry id and has passed = (payload      *)
(* length > 2): lengths 0, 1, 2 give FALSE, lengths 3 and above give TRUE.  *)
C5_Classification == [][C5_RecordStep]_vars

\* a row with passed = TRUE and a row with passed = FALSE have been written
C5_Witness ==
    /\ Len(records) >= 2
    /\ records[1].passed
    /\ ~records[2].passed

\* parts of C6_Fifo
C6_QueueOrder ==
    /\ IsPrefix(dequeued, pushed)
    /\ ~RxClosed => pushed = dequeued \o queue
    /\ InFlight => content_key = dequeued[Len(dequeued)]
    /\ audPc \in {"init", "recv", "done"} => content_key = NoKey

C6_RecvStep ==
    dequeued' # dequeued
        => /\ audPc = "recv"
           /\ content_key = NoKey
           /\ queue # <<>>
           /\ dequeued' = Append(dequeued, Head(queue))
           /\ queue' = Tail(queue)
           /\ content_key' = Head(queue)

(* C6: the Auditor receives the keys in the order in which they were        *)
(* pushed; while the Receiver lives nothing pushed is missing; a key is     *)
(* received only when the Auditor holds no key, that is after the previous  *)
(* key was skipped or recorded, and the key in hand is the latest received. *)
C6_Fifo ==
    /\ [](C6_QueueOrder)
    /\ [][C6_RecvStep]_vars

\* two different keys were received and more are waiting in the channel
C6_Witness ==
    /\ Len(dequeued) >= 2
    /\ dequeued[1] # dequeued[2]
    /\ queue # <<>>
    /\ InFlight

\* parts of C7_FailFast
C7_LookupErrTerminates ==
    audit.lookup = "err"
        => /\ audPc = "failed"
           /\ audit.resolved = "pending"
           /\ audit.creates = 0
           /\ audit.record = 0

C7_FailedStays ==
    audPc = "failed"
        => /\ audPc' = "failed"
           /\ dequeued' = dequeued
           /\ records' = records

(* C7: when get_content fails the Auditor terminates: no row is written     *)
(* for the key, and afterwards no key is received and no row is written.    *)
C7_FailFast ==
    /\ [](C7_LookupErrTerminates)
    /\ [][C7_FailedStays]_vars

\* the Auditor has terminated on a failed lookup while pushed keys had not
\* been received
C7_Witness ==
    /\ audPc = "failed"
    /\ audit.lookup = "err"
    /\ Len(pushed) > Len(dequeued)

(* C8 as stated: a StoreError of contentaudit::create terminates the        *)
(* Auditor.                                                                 *)
C8_StoreErrorIsFatal ==
    audit.create = "err" => audPc = "failed"

(* C9 as stated: once the Auditor has terminated on a NetworkError, or the  *)
(* Scheduler has met a closed channel in its send, the process is over      *)
(* without the interrupt signal.                                            *)
C9_ProcessAborts ==
    ((audPc = "failed" /\ audit.lookup = "err") \/ ChannelClosedPanic) => ~Alive

\* parts of C10_AppendOnly
C10_AppendOnlyStep ==
    \/ records' = records
    \/ /\ audPc = "create"
       /\ audit'.creates = audit.creates + 1
       /\ Len(records') = Len(records) + 1
       /\ SubSeq(records', 1, Len(records)) = records

C10_OneCreatePerKey ==
    /\ audit.creates <= 1
    /\ audit.creates = 1 => audit.lookup = "ok" /\ audit.resolved = "some"
    /\ (audit.resolved = "some" /\ audPc # "create") => audit.creates = 1
    /\ Len(records) <= Len(dequeued)

(* C10: the rows of contentaudit only grow by appending: a step leaves them *)
(* alone or appends one row, and only the Auditor's create step appends;    *)
(* contentaudit::create is called at most once per received key, and        *)
(* exactly once when its lookup succeeded and its entry resolved.           *)
C10_AppendOnly ==
    /\ [](C10_OneCreatePerKey)
    /\ [][C10_AppendOnlyStep]_vars

\* two rows for the same entry stand side by side
C10_Witness ==
    /\ Len(records) >= 2
    /\ records[1].content_key_entry_id = records[2].content_key_entry_id
    /\ audit.creates = 1

\* parts of C11_DerivationIsLossless
\* the entry of the batch whose key the for loop has derived last
C11_Derived == content_key_db_entries[idx].content_key

(* C11: the key the Scheduler derives from a raw key [s] + H + tail has the *)
(* 32 bytes H as its hash, whatever the selector s and the tail are, and    *)
(* nothing else: it is the block header key of H, so that every key derived *)
(* from the same raw key is the same key.                                   *)
C11_DerivationIsLossless ==
    (schedPc = "send" /\ pending # NoKey)
        => /\ idx \in 1..Len(content_key_db_entries)
           /\ Len(C11_Derived) >= HashLen + 1
           /\ CarriesHashOf(pending, C11_Derived)
           /\ DOMAIN pending = {"variant", "block_hash"}
           /\ \A k \in 1..Len(pushed) :
                 (\A j \in 1..HashLen : pushed[k].block_hash[j] = C11_Derived[j + 1])
                     => pushed[k] = pending

\* a key is being sent that was derived from a raw key with a tail, after a
\* key was derived from a raw key with a selector other than 0 and pushed
C11_Witness ==
    /\ schedPc = "send"
    /\ pending # NoKey
    /\ idx = 2
    /\ Len(C11_Derived) > HashLen + 1
    /\ content_key_db_entries[1].content_key[1] # 0
    /\ Len(pushed) >= 3

\* parts of C12_ShutdownIsImmediate
C12_AfterSignal ==
    supPc = "ended"
        => /\ supPc' = "ended"
           /\ dequeued' = dequeued
           /\ pushed' = pushed
           /\ records' = records
           /\ recorded' = recorded
           /\ queue' = queue
           /\ audPc' = audPc
           /\ schedPc' = schedPc
           /\ ticks' = ticks

C12_SignalStep ==
    (supPc = "waiting" /\ supPc' = "ended")
        => /\ records' = records
           /\ queue' = queue
           /\ dequeued' = dequeued
           /\ pushed' = pushed
           /\ audPc' = audPc

(* C12: the step that ends run_glados_audit writes nothing and takes        *)
(* nothing from the channel, and after it no key is received, no key is     *)
(* pushed and no row is written: the keys in the channel and the key the    *)
(* Auditor has in hand stay where they are, and the rows of contentaudit    *)
(* stay as they were.                                                       *)
C12_ShutdownIsImmediate ==
    /\ [][C12_AfterSignal]_vars
    /\ [][C12_SignalStep]_vars

\* the process has ended with keys in the channel and a lookup in flight,
\* after a row had been written
C12_Witness ==
    /\ supPc = "ended"
    /\ queue # <<>>
    /\ audPc = "lookup"
    /\ Len(records) >= 1

\* parts of C13_NoIdempotenceGuard
\* row e is among the BatchLimit most recently created rows of the catalog
C13_AmongRecent(e) ==
    \E i \in 1..Len(catalog) : catalog[i] = e /\ Len(catalog) - i < BatchLimit

\* a successful tick that follows a successful tick takes every row of the
\* batch before that is still among the most recent
C13_TickStep ==
    (ticks' = ticks + 1 /\ lastTick.ok /\ lastTick'.ok)
        => \A i \in 1..Len(content_key_db_entries) :
              C13_AmongRecent(content_key_db_entries[i])
                  => \E j \in 1..Len(content_key_db_entries') :
                         content_key_db_entries'[j] = content_key_db_entries[i]

\* a successful create appends a row whatever rows there are
C13_CreateStep ==
    (audPc = "create" /\ audit'.create = "ok")
        => /\ Len(records') = Len(records) + 1
           /\ records'[Len(records')].content_key_entry_id = content_key_id.id

\* a tick that has run to completion has pushed the key of every row of its
\* batch
C13_BatchPushed ==
    (lastTick.ok /\ schedPc = "tick")
        => /\ Len(TickPushed) = Len(content_key_db_entries)
           /\ \A i \in 1..Len(content_key_db_entries) :
                 TickPushed[i].block_hash
                     = SubSeq(content_key_db_entries[i].content_key, 2, HashLen + 1)

(* C13: nothing keeps a row from being audited again: a row of one          *)
(* successful tick's batch that is still among the 10 most recent rows at   *)
(* the next successful tick is in that tick's batch too, every row of a     *)
(* batch has its key pushed, and a successful create appends a row for the  *)
(* resolved entry even when rows for that entry exist.                      *)
C13_NoIdempotenceGuard ==
    /\ [][C13_TickStep]_vars
    /\ [][C13_CreateStep]_vars
    /\ [](C13_BatchPushed)

\* the only row of the catalog was pushed at two successive successful ticks
\* and has two rows in contentaudit
C13_Witness ==
    /\ ticks = 2
    /\ prevTick.ok /\ prevTick.k = 1
    /\ lastTick.ok /\ lastTick.k = 1
    /\ Len(pushed) = 2
    /\ pushed[1] = pushed[2]
    /\ recorded = pushed
    /\ Len(records) = 2
    /\ records[1].content_key_entry_id = records[2].content_key_entry_id

\* parts of C14_OldEntryIsNeverAudited
\* the rows of the catalog that have at least BatchLimit newer rows
C14_Outranked == { i \in 1..Len(catalog) : Len(catalog) - i >= BatchLimit }

(* C14: in a run whose catalog holds more than BatchLimit rows from the     *)
(* start, a row with BatchLimit or more newer rows is in no batch, no key   *)
(* with its hash is pushed and no row of contentaudit refers to it, however *)
(* many ticks run: such a row is never audited, so that not every row of    *)
(* the catalog eventually has a row in contentaudit.                        *)
C14_OldEntryIsNeverAudited ==
    \A i \in C14_Outranked :
        /\ \A j \in 1..Len(content_key_db_entries) :
              content_key_db_entries[j] # catalog[i]
        /\ \A k \in 1..Len(pushed) : ~CarriesHashOf(pushed[k], catalog[i].content_key)
        /\ \A r \in 1..Len(records) :
              records[r].content_key_entry_id # catalog[i].id

\* every tick has run without a failure and without the signal, rows have
\* been written, and a block header row with more than BatchLimit newer rows
\* has none
C14_Witness ==
    /\ ticks = FullTicks
    /\ Alive
    /\ ~RxClosed
    /\ ~TxClosed
    /\ Len(records) >= 1
    /\ \E i \in 1..Len(catalog) :
          /\ Len(catalog) - i > BatchLimit
          /\ \A r \in 1..Len(records) :
                records[r].content_key_entry_id # catalog[i].id

\* parts of C15_HangingLookupStalls
\* a step during which get_content has not returned
C15_Hanging == audPc = "lookup" /\ audPc' = "lookup"

C15_WhileHanging ==
    C15_Hanging
        => /\ dequeued' = dequeued
           /\ content_key' = content_key
           /\ records' = records
           /\ \/ queue' = queue
              \/ Len(queue) < ChannelCapacity /\ queue' = Append(queue, pending)

C15_BlockedWhileHanging ==
    (C15_Hanging /\ schedPc = "send" /\ Len(queue) = ChannelCapacity)
        => /\ schedPc' = "send"
           /\ pending' = pending
           /\ ticks' = ticks
           /\ lastTick' = lastTick
           /\ pushed' = pushed

\* the lookup ends by returning, and in no other way
C15_OnlyReturnEnds ==
    (audPc = "lookup" /\ audPc' # "lookup")
        => /\ audit.lookup = "pending"
           /\ audit'.lookup \in {"ok", "err"}
           /\ dequeued' = dequeued

C15_NothingElseToDo ==
    (Alive /\ audPc = "lookup" /\ schedPc = "send" /\ Len(queue) = ChannelCapacity)
        => /\ ~ENABLED SendOk
           /\ ~ENABLED SendClosed
           /\ ~ENABLED Recv(MaxAudits)

(* C15: while get_content has not returned, no key is received, no row is   *)
(* written and the channel only grows; when the channel is full and the     *)
(* Scheduler is in a send, that send does not complete and no tick runs for *)
(* as long as the lookup hangs; and the only way out of the lookup is that  *)
(* get_content returns.                                                     *)
C15_HangingLookupStalls ==
    /\ [][C15_WhileHanging]_vars
    /\ [][C15_BlockedWhileHanging]_vars
    /\ [][C15_OnlyReturnEnds]_vars
    /\ [](C15_NothingElseToDo)

\* the lookup is in flight, the channel is full, the Scheduler is blocked in
\* a send and the time of the next tick has come
C15_Witness ==
    /\ Alive
    /\ audPc = "lookup"
    /\ schedPc = "send"
    /\ Len(queue) = ChannelCapacity
    /\ now >= interval

\* parts of C16_PushedKeyIsProcessed
\* the n-th pushed key has been received and the Auditor is through with it
C16_Done(n) ==
    \/ Len(dequeued) > n
    \/ Len(dequeued) = n /\ audPc = "recv"

\* each of the first MaxAudits pushed keys is done
C16_AllDone == \A n \in 1..MaxAudits : Len(pushed) >= n => C16_Done(n)

\* the key the Auditor is through with was skipped as unresolved, or a row
\* was written for it
C16_Outcome ==
    /\ audit.lookup = "ok"
    /\ \/ audit.resolved \in {"none", "err"} /\ audit.creates = 0
       \/ audit.resolved = "some" /\ audit.create = "ok" /\ audit.record = Len(records)

\* a send is awaited although the Auditor may still receive a key, or
\* although the channel has room
C16_SendOwed ==
    /\ schedPc = "send"
    /\ Len(queue) < ChannelCapacity \/ Len(dequeued) < MaxAudits

\* the Auditor could not connect its client
C16_NotConnected == audPc = "failed" /\ dequeued = <<>>

(* C16 as stated: with no failing or hanging lookup, no signal and fair      *)
(* scheduling, each of the first MaxAudits pushed keys is eventually        *)
(* received and skipped or recorded, and no send stays awaited for ever     *)
(* while the Auditor may still receive a key: a Scheduler blocked on the    *)
(* full channel completes its send.                                         *)
C16_AsStated ==
    /\ []<>(C16_AllDone)
    /\ []<>(~C16_SendOwed)
    /\ []((audPc = "recv" /\ dequeued # <<>>) => C16_Outcome)

(* C16 as amended: the same, when moreover the Auditor's client connects    *)
(* and no write to contentaudit fails.                                      *)
C16_PushedKeyIsProcessed ==
    /\ []<>(C16_AllDone \/ C16_NotConnected)
    /\ []<>(~C16_SendOwed \/ C16_NotConnected)
    /\ []((audPc = "recv" /\ dequeued # <<>>)
            => (C16_Outcome \/ audit.create = "err"))
    /\ [](IsPrefix(dequeued, pushed))

\* the Scheduler was blocked on the full channel and has pushed again, and
\* the Auditor is through with every key it may receive, the last one
\* skipped
C16_Witness ==
    /\ Len(pushed) = ChannelCapacity + MaxAudits
    /\ C16_Done(MaxAudits)
    /\ C16_Outcome
    /\ audit.resolved = "none"
    /\ Len(records) >= 1

\* parts of C17_SchedulerOutlivesAuditor
\* the step on which the Auditor terminates on an error empties the channel
\* and leaves the Scheduler where it is
C17_FailStep ==
    (audPc # "failed" /\ audPc' = "failed")
        => /\ queue' = <<>>
           /\ dequeued' = dequeued
           /\ records' = records
           /\ schedPc' = schedPc
           /\ pushed' = pushed
           /\ ticks' = ticks

\* afterwards nothing is received or written and the channel stays empty
C17_AfterFail ==
    audPc = "failed"
        => /\ queue' = <<>>
           /\ dequeued' = dequeued
           /\ records' = records
           /\ pushed' = pushed

\* with the Auditor gone, the Scheduler terminates only in a send (or on a
\* raw key it cannot slice)
C17_LearnsInSend ==
    (audPc = "failed" /\ schedPc # "panicked" /\ schedPc' = "panicked")
        => \/ schedPc = "send" /\ pending' = pending /\ pending # NoKey
           \/ /\ pending' = NoKey
              /\ idx' < Len(content_key_db_entries')
              /\ ~CanDerive(content_key_db_entries'[idx' + 1].content_key)

\* a tick whose query fails or returns no row leaves the Scheduler waiting
\* for the next tick
C17_EmptyTick ==
    (audPc = "failed" /\ ticks' = ticks + 1 /\ (~lastTick'.ok \/ lastTick'.k = 0))
        => /\ schedPc' = "tick"
           /\ interval' = interval + AUDIT_PERIOD_SECONDS

\* the Scheduler's tick is not held back by the Auditor being gone
C17_StillTicks ==
    (Alive /\ audPc = "failed" /\ schedPc = "tick" /\ now >= interval
       /\ ticks < MaxTicks)
        => ENABLED TickOk(MaxTicks) /\ ENABLED TickErr(MaxTicks)

(* C17: when the Auditor terminates on an error the keys in the channel are *)
(* dropped and none of them is received later; the Scheduler is untouched   *)
(* by that step, its ticks and its catalog query go on, a tick with a       *)
(* failed query or an empty batch leaves it waiting for the next tick, and  *)
(* it terminates on the closed channel only in a send.                     *)
C17_SchedulerOutlivesAuditor ==
    /\ [][C17_FailStep]_vars
    /\ [][C17_AfterFail]_vars
    /\ [][C17_LearnsInSend]_vars
    /\ [][C17_EmptyTick]_vars
    /\ [](C17_StillTicks)

\* the Auditor has terminated with pushed keys it had not received, and the
\* Scheduler, two ticks done, the latest with a failed query, waits for the
\* next
C17_Witness ==
    /\ Alive
    /\ audPc = "failed"
    /\ Len(dequeued) >= 1
    /\ Len(pushed) > Len(dequeued)
    /\ queue = <<>>
    /\ schedPc = "tick"
    /\ ticks = 2
    /\ prevTick.ok
    /\ ~lastTick.ok

\* parts of C18_ResolveErrorIsSkipped
\* the step on which contentkey::get returns an error
C18_ErrStep ==
    (audit.resolved = "pending" /\ audit'.resolved = "err")
        => /\ audPc = "resolve"
           /\ audPc' = "recv"
           /\ records' = records
           /\ queue' = queue
           /\ dequeued' = dequeued

\* no create was called for the key, and the Auditor is at rx.recv()
C18_ErrIsSkipped ==
    audit.resolved = "err"
        => /\ audit.lookup = "ok"
           /\ audit.creates = 0
           /\ audit.create = "none"
           /\ audit.record = 0
           /\ audPc \in {"recv", "done"}
           /\ Len(records) <= Len(dequeued) - 1

\* the next key of the channel can be received
C18_GoesOn ==
    (Alive /\ audit.resolved = "err" /\ audPc = "recv" /\ queue # <<>>
       /\ Len(dequeued) < MaxAudits)
        => ENABLED Recv(MaxAudits)

(* C18: when contentkey::get fails for the key in hand no row is written    *)
(* for that key, the Auditor does not terminate, and it is back at          *)
(* rx.recv(), where the next key of the channel can be received: the error  *)
(* is dealt with as Ok(None) is.                                            *)
C18_ResolveErrorIsSkipped ==
    /\ [][C18_ErrStep]_vars
    /\ [](C18_ErrIsSkipped)
    /\ [](C18_GoesOn)

\* the resolution of the second key failed after the first key was recorded:
\* no row was added and the Auditor waits for the next key
C18_Witness ==
    /\ Len(dequeued) = 2
    /\ audit.resolved = "err"
    /\ audPc = "recv"
    /\ Len(records) = 1
    /\ Len(recorded) = 1
    /\ recorded[1] = dequeued[1]
    /\ queue # <<>>

\* parts of C19_RecordsInQueueOrder
\* s can be had from t by leaving elements out
RECURSIVE IsSubseq(_, _)
IsSubseq(s, t) ==
    IF s = <<>> THEN TRUE
    ELSE IF t = <<>> THEN FALSE
    ELSE IF Head(s) = Head(t) THEN IsSubseq(Tail(s), Tail(t))
    ELSE IsSubseq(s, Tail(t))

\* a row is written for the key received last
C19_WriteStep ==
    records' # records
        => /\ Len(records') = Len(records) + 1
           /\ Len(recorded') = Len(recorded) + 1
           /\ dequeued # <<>>
           /\ recorded'[Len(recorded')] = dequeued[Len(dequeued)]
           /\ audit.creates = 0

(* C19: the keys for which rows of contentaudit were written, in the order  *)
(* of the rows, are a subsequence of the keys received, which are the first *)
(* of the keys pushed, in the same order; there are no more rows than keys  *)
(* received and no more keys received than keys pushed.                     *)
C19_RecordsInQueueOrder ==
    /\ [](Len(recorded) = Len(records))
    /\ [](IsSubseq(recorded, dequeued))
    /\ [](IsPrefix(dequeued, pushed))
    /\ [](IsSubseq(recorded, pushed))
    /\ [](Len(records) <= Len(dequeued) /\ Len(dequeued) <= Len(pushed))
    /\ [][C19_WriteStep]_vars

\* rows were written for two different keys, in the order in which the keys
\* were pushed, and more keys were pushed than were received
C19_Witness ==
    /\ Len(records) = 2
    /\ recorded[1] # recorded[2]
    /\ recorded = dequeued
    /\ Len(pushed) > Len(dequeued)
    /\ records[1].content_key_entry_id # records[2].content_key_entry_id

\* parts of C20_ShortKeyEndsScheduler
\* the Scheduler panicked in the slice of a raw key
C20_SlicePanic == schedPc = "panicked" /\ pending = NoKey

\* the positions of the batch whose raw key cannot be sliced
C20_Short ==
    { i \in 1..Len(content_key_db_entries) :
        ~CanDerive(content_key_db_entries[i].content_key) }

\* the for loop does not get past a short raw key and the tick does not end
C20_StopsAtShort ==
    (lastTick.ok /\ C20_Short # {})
        => /\ schedPc \in {"send", "panicked"}
           /\ \A i \in C20_Short :
                 /\ idx < i
                 /\ Len(TickPushed) < i

\* at the panic the entries before the short one have been pushed, in order
C20_PrefixPushed ==
    C20_SlicePanic
        => /\ lastTick.ok
           /\ idx + 1 \in C20_Short
           /\ \A i \in 1..idx : i \notin C20_Short
           /\ Len(TickPushed) = idx
           /\ \A i \in 1..idx :
                 CarriesHashOf(TickPushed[i], content_key_db_entries[i].content_key)

\* after the panic no tick runs and nothing is pushed
C20_AfterPanic ==
    schedPc = "panicked"
        => /\ schedPc' = "panicked"
           /\ ticks' = ticks
           /\ lastTick' = lastTick
           /\ pushed' = pushed
           /\ idx' = idx

\* the Auditor returns Ok(()) only from rx.recv() on the empty channel whose
\* Sender is gone
C20_DoneStep ==
    (audPc # "done" /\ audPc' = "done")
        => /\ audPc = "recv"
           /\ queue = <<>>
           /\ C20_SlicePanic
           /\ records' = records

C20_Done ==
    audPc = "done"
        => /\ C20_SlicePanic
           /\ queue = <<>>
           /\ dequeued = pushed
           /\ audit.lookup # "err"

\* with the Sender gone the Auditor can still receive what the channel
\* holds, and can return when it holds nothing
C20_Drains ==
    (Alive /\ TxClosed /\ audPc = "recv")
        => /\ (queue # <<>> /\ Len(dequeued) < MaxAudits) => ENABLED Recv(MaxAudits)
           /\ queue = <<>> => ENABLED RecvNone
           /\ queue # <<>> => ~ENABLED RecvNone

(* C20: a raw key shorter than 33 bytes ends the Scheduler at its entry:    *)
(* the keys of the entries before it in the batch have been pushed, no key  *)
(* is pushed for it or for a later entry, and no tick runs afterwards; the  *)
(* Auditor can still receive the keys in the channel, and it returns        *)
(* without an error when, and only when, the channel is empty.              *)
C20_ShortKeyEndsScheduler ==
    /\ [](C20_StopsAtShort)
    /\ [](C20_PrefixPushed)
    /\ [](C20_Done)
    /\ [](C20_Drains)
    /\ [][C20_AfterPanic]_vars
    /\ [][C20_DoneStep]_vars

\* the second entry of the batch had a short raw key: the key of the first
\* was pushed, the Auditor has received it and returned, and the time of the
\* next tick has come
C20_Witness ==
    /\ Alive
    /\ C20_SlicePanic
    /\ Len(content_key_db_entries) = 2
    /\ idx = 1
    /\ audPc = "done"
    /\ Len(dequeued) >= 1
    /\ dequeued = pushed
    /\ ticks < MaxTicks
    /\ now >= interval

====
